---- MODULE Spec2Model ----
(***************************************************************************)
(* Model of PyQtExamples/ShowImageExample/image_widget.py: the ImageWidget *)
(* class (a QWidget that shows a NumPy / OpenCV image).                    *)
(*                                                                         *)
(* State: the attributes of the widget (desired_width, showed_image,       *)
(* grayscale_colortable), the part of the inherited QWidget state the      *)
(* methods touch (fixed size, visibility, posted paint events) and         *)
(* observation variables describing the handler that ran last.             *)
(*                                                                         *)
(* Library semantics assumed (cv2 / Qt documentation):                     *)
(*  - cv2.resize(src, dsize, dst, fx, fy): dsize is (width, height); when  *)
(*    dsize is non-zero the output has that size and fx, fy are ignored;   *)
(*    a resize to the source's own size is a plain copy.                   *)
(*  - QWidget.repaint() calls paintEvent() immediately when the widget is  *)
(*    visible and does nothing when it is hidden.                          *)
(*  - QImage(data, w, h, bytesPerLine, format) wraps the buffer it is      *)
(*    given; the buffer is taken to stay alive as long as the image.       *)
(***************************************************************************)
EXTENDS Integers, Sequences, FiniteSets, TLC

\* Bounds of the input space.
MaxDim == 2
NumContents == 2

\* Pixel values are bytes.
ByteRange == 256

--------------------------------------------------------------------------
\* NumPy arrays.  shape is <<rows, cols>> or <<rows, cols, channels>>; base
\* holds the bytes of the source pixels in memory order (row-major, channels
\* interleaved) and baseShape their layout; linear says that the array is
\* the bilinear interpolation of base to shape (the interpolation itself is
\* an opaque function of base).

RECURSIVE Prod(_)
Prod(s) == IF s = <<>> THEN 1 ELSE Head(s) * Prod(Tail(s))

\* ndarray.size
Size(a) == Prod(a.shape)

\* Placeholder for "no array" (argument of a handler that takes none, data
\* of a null QImage).
NoArray == [shape |-> <<0>>, base |-> <<>>, baseShape |-> <<0>>, linear |-> FALSE]

\* The buffer with content number k and the given shape.
Buffer(shp, k) ==
  [shape |-> shp,
   base |-> [i \in 1..Prod(shp) |-> (37 * k + 17 * i) % ByteRange],
   baseShape |-> shp,
   linear |-> FALSE]

\* The buffers a caller may pass: height x width, or height x width x 3.
NewImages ==
  { Buffer(<<h, w>>, k) : h \in 0..MaxDim, w \in 0..MaxDim, k \in 1..NumContents }
  \cup
  { Buffer(<<h, w, 3>>, k) : h \in 0..MaxDim, w \in 0..MaxDim, k \in 1..NumContents }

\* round(): nearest integer to n / d, ties to even (Python round, cvRound).
RoundHalfEven(n, d) ==
  LET q == n \div d
      r == n % d
  IN  IF 2 * r < d THEN q
      ELSE IF 2 * r > d THEN q + 1
      ELSE IF q % 2 = 0 THEN q ELSE q + 1

\* cv2.resize(src, dsize, dst, fx, fy, interpolation=INTER_LINEAR).
\* dsize = <<width, height>>; fx, fy are ratios <<numerator, denominator>>.
cv2_resize(src, dsize, dst, fx, fy) ==
  LET useDsize == dsize[1] * dsize[2] # 0
      dcols == IF useDsize THEN dsize[1]
               ELSE RoundHalfEven(src.shape[2] * fx[1], fx[2])
      drows == IF useDsize THEN dsize[2]
               ELSE RoundHalfEven(src.shape[1] * fy[1], fy[2])
      shp == IF Len(src.shape) = 2 THEN <<drows, dcols>>
             ELSE <<drows, dcols, src.shape[3]>>
  IN  IF shp = src.shape THEN src
      ELSE [shape |-> shp, base |-> src.base,
            baseShape |-> src.baseShape, linear |-> TRUE]

\* cv2.cvtColor(src, COLOR_BGR2RGB): the first and third channel of every
\* pixel are exchanged (interpolation acts per channel, so exchanging the
\* channels of the source pixels exchanges those of the interpolated ones).
cv2_cvtColor_BGR2RGB(src) ==
  [src EXCEPT !.base =
     [i \in 1..Len(src.base) |->
        IF i % 3 = 1 THEN src.base[i + 2]
        ELSE IF i % 3 = 0 THEN src.base[i - 2]
        ELSE src.base[i]]]

--------------------------------------------------------------------------
\* Qt values.

\* qRgb(r, g, b): an opaque ARGB quadruple <<alpha, red, green, blue>>.
qRgb(r, g, b) == <<255, r % ByteRange, g % ByteRange, b % ByteRange>>
qRed(c) == c[2]
qGreen(c) == c[3]
qBlue(c) == c[4]

\* Python None.
None ==
  [py |-> "None", format |-> "", width |-> 0, height |-> 0,
   bytesPerLine |-> 0, data |-> NoArray, colorTable |-> <<>>]

\* QImage(): the null image.
QImageNull ==
  [py |-> "QImage", format |-> "Invalid", width |-> 0, height |-> 0,
   bytesPerLine |-> 0, data |-> NoArray, colorTable |-> <<>>]

\* QImage(data, width, height, bytesPerLine, format)
QImage(data, width, height, bytesPerLine, format) ==
  [py |-> "QImage", format |-> format, width |-> width, height |-> height,
   bytesPerLine |-> bytesPerLine, data |-> data, colorTable |-> <<>>]

\* QImage.setColorTable(colors)
setColorTable(image, colors) == [image EXCEPT !.colorTable = colors]

\* QPixmap(image): the pixmap holding the pixels of the image, indexed
\* pixels looked up in the image's color table.
QPixmap(image) ==
  [isNull |-> image.format = "Invalid",
   width |-> image.width, height |-> image.height,
   pixels |-> image.data, stride |-> image.bytesPerLine,
   indexed |-> image.format = "Indexed8", lut |-> image.colorTable]

--------------------------------------------------------------------------
\* The widget.

VARIABLES
  desired_width,         \* self.desired_width
  showed_image,          \* self.showed_image
  grayscale_colortable,  \* self.grayscale_colortable
  fixedSize,             \* <<w, h>> given to setFixedSize, <<>> before
  visible,               \* QWidget.isVisible()
  pending,               \* a paint event is posted in the event loop
  call,                  \* the handler that ran last and its argument
  prevOp,                \* the handler that ran before it
  paintEvents,           \* paintEvent calls made while the last handler ran
  drawn,                 \* drawPixmap calls made while the last handler ran
  lastSubmit             \* buffer of the last updateImage that stored an
                         \* image, NoArray after clearBuffers

vars == <<desired_width, showed_image, grayscale_colortable, fixedSize,
          visible, pending, call, prevOp, paintEvents, drawn, lastSubmit>>

\* __init__: self.desired_width
DesiredWidth == 480

\* __init__: np.array([qRgb(i, i, i) for i in range(256)])
GrayscaleColortable == [j \in 1..ByteRange |-> qRgb(j - 1, j - 1, j - 1)]

\* clearBuffers: the value assigned to self.showed_image.
ClearedImage_None == None
ClearedImage == QImageNull

\* paintEvent(self, event): the drawPixmap calls it makes.
paintEvent_swapped(image) ==
  IF image # None
    THEN << [x |-> 0, y |-> 0, w |-> image.height, h |-> image.width,
             pixmap |-> QPixmap(image)] >>
    ELSE << >>
paintEvent(image) ==
  IF image # None
    THEN << [x |-> 0, y |-> 0, w |-> image.width, h |-> image.height,
             pixmap |-> QPixmap(image)] >>
    ELSE << >>

\* updateImage: the test "if new_image.size".
IsNonEmpty_len(new_image) == new_image.shape[1] # 0
IsNonEmpty(new_image) == Size(new_image) # 0

\* updateImage: scaling_factor, as a ratio.
ScalingFactor(width, new_image) == <<width, new_image.shape[2]>>

\* updateImage: scaled_image = cv2.resize(new_image, new_image.shape[0:2],
\*   scaling_factor, scaling_factor, interpolation=cv2.INTER_LINEAR)
\* (positionally: dsize = shape[0:2], dst = scaling_factor,
\*  fx = scaling_factor, fy = 0).
ScaledImage(width, new_image) ==
  cv2_resize(new_image, SubSeq(new_image.shape, 1, 2),
             ScalingFactor(width, new_image),
             ScalingFactor(width, new_image), <<0, 1>>)

\* updateImage: the arguments of self.setFixedSize.
FixedSizeArgs_swapped(scaled_image) == <<scaled_image.shape[1], scaled_image.shape[2]>>
FixedSizeArgs(scaled_image) == <<scaled_image.shape[2], scaled_image.shape[1]>>

\* updateImage: the grayscale branch.
IndexedImage_noTable(scaled_image, colortable) ==
  QImage(scaled_image, scaled_image.shape[2], scaled_image.shape[1],
         scaled_image.shape[2], "Indexed8")
IndexedImage(scaled_image, colortable) ==
  setColorTable(
    QImage(scaled_image, scaled_image.shape[2], scaled_image.shape[1],
           scaled_image.shape[2], "Indexed8"),
    colortable)

\* updateImage: the color branch; width and height are those of the resized
\* buffer, the data is cv2.cvtColor(new_image, cv2.COLOR_BGR2RGB).
RGBImage(new_image, width, height) ==
  QImage(cv2_cvtColor_BGR2RGB(new_image), width, height, 3 * width, "RGB888")

\* updateImage: the image stored for a non-empty buffer.
StoredImage(width, new_image, colortable) ==
  LET scaled_image == ScaledImage(width, new_image)
  IN  IF Len(scaled_image.shape) = 2
        THEN IndexedImage(scaled_image, colortable)
        ELSE RGBImage(new_image, scaled_image.shape[2], scaled_image.shape[1])

\* self.repaint(): paintEvent runs at once if the widget is visible.
Repaint(image) ==
  /\ paintEvents' = IF visible THEN 1 ELSE 0
  /\ drawn' = IF visible THEN paintEvent(image) ELSE << >>

\* __init__ has run: desired_width set, clearBuffers() called on the hidden
\* widget, the color table built.
Init ==
  /\ desired_width = DesiredWidth
  /\ showed_image = ClearedImage
  /\ grayscale_colortable = GrayscaleColortable
  /\ fixedSize = << >>
  /\ visible = FALSE
  /\ pending = FALSE
  /\ call = [op |-> "__init__", new_image |-> NoArray, exc |-> ""]
  /\ prevOp = ""
  /\ paintEvents = 0
  /\ drawn = << >>
  /\ lastSubmit = NoArray

\* updateImage(self, new_image)
UpdateImage(new_image) ==
  /\ prevOp' = call.op
  /\ IF IsNonEmpty(new_image)
       THEN IF new_image.shape[2] = 0
              THEN \* desired_width / 0
                   /\ call' = [op |-> "updateImage", new_image |-> new_image,
                               exc |-> "ZeroDivisionError"]
                   /\ paintEvents' = 0
                   /\ drawn' = << >>
                   /\ UNCHANGED <<showed_image, fixedSize, lastSubmit>>
              ELSE IF Size(new_image) = 0
              THEN \* cv2.resize rejects an empty source
                   /\ call' = [op |-> "updateImage", new_image |-> new_image,
                               exc |-> "cv2.error"]
                   /\ paintEvents' = 0
                   /\ drawn' = << >>
                   /\ UNCHANGED <<showed_image, fixedSize, lastSubmit>>
              ELSE /\ call' = [op |-> "updateImage", new_image |-> new_image,
                               exc |-> ""]
                   /\ fixedSize' = FixedSizeArgs(ScaledImage(desired_width, new_image))
                   /\ showed_image' = StoredImage(desired_width, new_image,
                                                  grayscale_colortable)
                   /\ lastSubmit' = new_image
                   /\ Repaint(showed_image')
       ELSE \* print("Not updating image. The provided image is empty")
            /\ call' = [op |-> "updateImage", new_image |-> new_image, exc |-> ""]
            /\ paintEvents' = 0
            /\ drawn' = << >>
            /\ UNCHANGED <<showed_image, fixedSize, lastSubmit>>
  /\ UNCHANGED <<desired_width, grayscale_colortable, visible, pending>>

\* clearBuffers(self)
ClearBuffers ==
  /\ prevOp' = call.op
  /\ call' = [op |-> "clearBuffers", new_image |-> NoArray, exc |-> ""]
  /\ showed_image' = ClearedImage
  /\ lastSubmit' = NoArray
  /\ Repaint(showed_image')
  /\ UNCHANGED <<desired_width, grayscale_colortable, fixedSize, visible, pending>>

\* The toolkit delivers a posted paint event: paintEvent(self, event).
PaintEvent ==
  /\ visible
  /\ pending
  /\ prevOp' = call.op
  /\ call' = [op |-> "paintEvent", new_image |-> NoArray, exc |-> ""]
  /\ pending' = FALSE
  /\ paintEvents' = 1
  /\ drawn' = paintEvent(showed_image)
  /\ UNCHANGED <<desired_width, showed_image, grayscale_colortable, fixedSize,
                 visible, lastSubmit>>

\* The host shows the widget; the toolkit posts a paint event.
Show ==
  /\ ~visible
  /\ prevOp' = call.op
  /\ call' = [op |-> "show", new_image |-> NoArray, exc |-> ""]
  /\ visible' = TRUE
  /\ pending' = TRUE
  /\ paintEvents' = 0
  /\ drawn' = << >>
  /\ UNCHANGED <<desired_width, showed_image, grayscale_colortable, fixedSize,
                 lastSubmit>>

\* The host hides the widget; posted paint events are dropped.
Hide ==
  /\ visible
  /\ prevOp' = call.op
  /\ call' = [op |-> "hide", new_image |-> NoArray, exc |-> ""]
  /\ visible' = FALSE
  /\ pending' = FALSE
  /\ paintEvents' = 0
  /\ drawn' = << >>
  /\ UNCHANGED <<desired_width, showed_image, grayscale_colortable, fixedSize,
                 lastSubmit>>

\* The visible widget is exposed; the toolkit posts a paint event.
Expose ==
  /\ visible
  /\ ~pending
  /\ prevOp' = call.op
  /\ call' = [op |-> "expose", new_image |-> NoArray, exc |-> ""]
  /\ pending' = TRUE
  /\ paintEvents' = 0
  /\ drawn' = << >>
  /\ UNCHANGED <<desired_width, showed_image, grayscale_colortable, fixedSize,
                 visible, lastSubmit>>

Next ==
  \/ \E new_image \in NewImages : UpdateImage(new_image)
  \/ ClearBuffers
  \/ PaintEvent
  \/ Show
  \/ Hide
  \/ Expose

Spec == Init /\ [][Next]_vars

--------------------------------------------------------------------------
\* Properties.

\* The last handler was an updateImage that stored an image.
Stored ==
  /\ call.op = "updateImage"
  /\ call.exc = ""
  /\ Size(call.new_image) # 0

\* C1: whenever an image is displayed, its width is the target width 480.
DisplayedWidthIsTargetWidth ==
  showed_image.format \in {"Indexed8", "RGB888"} => showed_image.width = desired_width

\* C2: after updateImage of a non-empty h x w buffer the displayed image
\* has height round(h * 480 / w).
DisplayedHeightKeepsAspectRatio ==
  Stored =>
    showed_image.height =
      RoundHalfEven(call.new_image.shape[1] * DesiredWidth, call.new_image.shape[2])

\* C3: updateImage of an empty buffer raises nothing and changes nothing:
\* displayed image, widget size and posted paint events stay as they were
\* and nothing is painted.
EmptySubmitChangesNothing ==
  [][ (call'.op = "updateImage" /\ Size(call'.new_image) = 0) =>
        /\ call'.exc = ""
        /\ showed_image' = showed_image
        /\ fixedSize' = fixedSize
        /\ pending' = pending
        /\ visible' = visible
        /\ paintEvents' = 0
        /\ drawn' = << >> ]_vars

\* An empty buffer was submitted while an image was displayed.
EmptySubmitOverImage ==
  /\ call.op = "updateImage"
  /\ Size(call.new_image) = 0
  /\ showed_image.format \in {"Indexed8", "RGB888"}

\* C4: a paint event delivered while no image is displayed makes no
\* drawPixmap call.
PaintWithoutImageDrawsNothing ==
  (call.op = "paintEvent" /\ showed_image = QImageNull) => drawn = << >>

\* C5: clearBuffers always leaves the widget without an image, and a second
\* clearBuffers right after a first one leaves the state as it was.
ClearResetsAndIsIdempotent ==
  [][ call'.op = "clearBuffers" =>
        /\ showed_image' = QImageNull
        /\ call.op = "clearBuffers" =>
             /\ showed_image' = showed_image
             /\ fixedSize' = fixedSize
             /\ visible' = visible
             /\ pending' = pending
             /\ paintEvents' = paintEvents
             /\ drawn' = drawn ]_vars

\* clearBuffers ran twice in a row after an image had been stored.
ClearedTwice ==
  /\ call.op = "clearBuffers"
  /\ prevOp = "clearBuffers"
  /\ showed_image = QImageNull
  /\ fixedSize # << >>

\* C6: no paintEvent runs while updateImage or clearBuffers runs.
RepaintIsDeferred ==
  call.op \in {"updateImage", "clearBuffers"} => paintEvents = 0

\* C7: for a color buffer the stored image is RGB888, its data is the
\* resized buffer with the channels exchanged, its width and height are
\* those of the resized buffer and its stride is 3 * width.
ColorImageIsResizedRGB ==
  (Stored /\ Len(call.new_image.shape) = 3) =>
    LET scaled_image == ScaledImage(desired_width, call.new_image)
    IN  /\ showed_image.format = "RGB888"
        /\ showed_image.data = cv2_cvtColor_BGR2RGB(scaled_image)
        /\ showed_image.width = scaled_image.shape[2]
        /\ showed_image.height = scaled_image.shape[1]
        /\ showed_image.bytesPerLine = 3 * showed_image.width

\* C8: while the last change of the image is an updateImage, every
\* paintEvent draws exactly the image of that updateImage at (0, 0) with
\* the image's own width and height.
LatestSubmitIsPainted ==
  (paintEvents > 0 /\ lastSubmit # NoArray) =>
    LET image == StoredImage(DesiredWidth, lastSubmit, GrayscaleColortable)
    IN  drawn = << [x |-> 0, y |-> 0, w |-> image.width, h |-> image.height,
                    pixmap |-> QPixmap(image)] >>

\* A posted paint event was delivered after two updateImage calls.
PaintedAfterSubmits ==
  /\ call.op = "paintEvent"
  /\ prevOp = "updateImage"
  /\ lastSubmit # NoArray
  /\ Len(drawn) = 1
  /\ drawn[1].w # drawn[1].h

\* C9: after an updateImage that stored an image, the fixed size of the
\* widget is the (width, height) of that image.
FixedSizeMatchesImage ==
  Stored => fixedSize = <<showed_image.width, showed_image.height>>

\* An image that is not square was stored.
StoredNonSquare ==
  /\ Stored
  /\ showed_image.width # showed_image.height
  /\ fixedSize # << >>

\* C10: a 2-dimensional resized buffer is stored as an indexed image whose
\* color table is the grayscale palette (256 entries, entry i with
\* red = green = blue = i), a buffer with a channel axis as a direct-color
\* image; palette and target width stay as constructed.
FormatFollowsDimensions ==
  /\ desired_width = 480
  /\ Len(grayscale_colortable) = 256
  /\ \A i \in 0..255 :
       /\ qRed(grayscale_colortable[i + 1]) = i
       /\ qGreen(grayscale_colortable[i + 1]) = i
       /\ qBlue(grayscale_colortable[i + 1]) = i
  /\ Stored =>
       IF Len(ScaledImage(desired_width, call.new_image).shape) = 2
         THEN /\ showed_image.format = "Indexed8"
              /\ showed_image.colorTable = grayscale_colortable
         ELSE showed_image.format = "RGB888"

\* A grayscale image was stored after a color image had been.
StoredIndexed ==
  /\ Stored
  /\ showed_image.format = "Indexed8"
  /\ Len(showed_image.colorTable) = 256

====
